---- MODULE Spec2Model ----
(***************************************************************************)
(* A model of the sudoku solver of src/src/sudoku: the board of board.py   *)
(* (state, possible_values, update_possible_values, related_cells) and the *)
(* solver of solver.py (solve, propagate_constraints, backtrack).          *)
(*                                                                         *)
(* The recursion of propagate_constraints and of backtrack is unfolded     *)
(* into one step per invocation, per loop iteration and per return, with   *)
(* the frames of backtrack kept on an explicit stack.  The clock is        *)
(* abstracted by the boolean `expired' (time.time() - start has reached    *)
(* max_solve_time); every read of the clock may find it newly expired and  *)
(* it never goes back (a monotonic clock).                                 *)
(***************************************************************************)
EXTENDS Integers, Sequences, FiniteSets, TLC

(***************************************************************************)
(* Dimensions of the board.                                                *)
(***************************************************************************)
Box == 3
Side == 9
Values == 1..Side
Cells == (0..(Side - 1)) \X (0..(Side - 1))

\* self.indices: the cells in row-major order (a 1-based sequence here)
indices == [k \in 1..(Side * Side) |-> <<(k - 1) \div Side, (k - 1) % Side>>]

\* position of a cell in self.indices
Ord(index) == index[1] * Side + index[2] + 1

Min(S) == CHOOSE x \in S : \A y \in S : x <= y
Max(S) == CHOOSE x \in S : \A y \in S : y <= x

(***************************************************************************)
(* The family of initial grids: a solved grid, with some cells blanked and *)
(* at most one clue overwritten.                                           *)
(***************************************************************************)
solved ==
  << 9,7,4, 2,3,6, 1,5,8,
     6,3,8, 5,9,1, 7,4,2,
     1,2,5, 4,8,7, 9,3,6,
     3,1,6, 7,5,4, 2,8,9,
     7,4,2, 9,1,8, 5,6,3,
     5,8,9, 3,6,2, 4,1,7,
     8,6,7, 1,2,5, 3,9,4,
     2,5,3, 6,4,9, 8,7,1,
     4,9,1, 8,7,3, 6,2,5 >>

SolvedGrid == [index \in Cells |-> solved[Ord(index)]]

\* the cells blanked in an initial grid are drawn from HoleCells, at most
\* MaxHoles of them
HoleCells == {<<2, 0>>, <<2, 4>>, <<2, 6>>, <<2, 7>>, <<6, 4>>, <<6, 6>>, <<6, 7>>}
MaxHoles == 6

\* the clue at OverwriteCell is kept, or overwritten with one of OverwriteValues
OverwriteCell == <<0, 0>>
OverwriteValues == {1, 2}

Blanked(grid, holes) == [index \in Cells |-> IF index \in holes THEN 0 ELSE grid[index]]

\* a grid without a clash among its clues that has no completion: propagation
\* commits cells and then finds a cell with no value left
DeadEndGrid ==
  Blanked([SolvedGrid EXCEPT ![<<3, 4>>] = 6], {<<2, 2>>, <<3, 2>>, <<5, 0>>, <<5, 4>>})

\* a grid on which propagation commits a cell and stalls and the search then
\* finds no solution: the three empty cells of the first row can only hold 7
\* or 9
StalledDeadEndGrid ==
  Blanked([SolvedGrid EXCEPT ![<<4, 0>>] = 4, ![<<8, 1>>] = 4,
                             ![<<5, 2>>] = 4, ![<<6, 2>>] = 4],
          {<<0, 0>>, <<0, 1>>, <<0, 2>>, <<2, 6>>})

InitialGrids ==
  LET blanked == {Blanked(SolvedGrid, holes) :
                    holes \in {h \in SUBSET HoleCells : Cardinality(h) <= MaxHoles}}
  IN  blanked \cup {[g EXCEPT ![OverwriteCell] = v] : g \in blanked, v \in OverwriteValues}
              \cup {DeadEndGrid, StalledDeadEndGrid}

\* a few grids of the first family, one per way a run can go: a full grid,
\* a full grid with a clash, a grid that propagation completes, one on which
\* it stalls, one whose search meets dead ends before it succeeds, and one
\* whose search is exhausted
SampleGrids ==
  { SolvedGrid,
    [SolvedGrid EXCEPT ![OverwriteCell] = 1],
    Blanked(SolvedGrid, {<<2, 4>>, <<6, 7>>}),
    Blanked(SolvedGrid, {<<2, 6>>, <<2, 7>>, <<6, 6>>, <<6, 7>>}),
    Blanked([SolvedGrid EXCEPT ![OverwriteCell] = 2],
            {<<2, 0>>, <<2, 6>>, <<2, 7>>, <<6, 6>>, <<6, 7>>}),
    Blanked([SolvedGrid EXCEPT ![OverwriteCell] = 1],
            {<<2, 0>>, <<2, 4>>, <<2, 6>>, <<2, 7>>, <<6, 6>>}) }

\* a second family, of full grids: SolvedGrid with two digits exchanged
\* everywhere, the cell at OverwriteCell kept or overwritten with any value
Relabelled(a, b) ==
  [index \in Cells |-> IF SolvedGrid[index] = a THEN b
                       ELSE IF SolvedGrid[index] = b THEN a
                       ELSE SolvedGrid[index]]

FullGrids ==
  LET relabelled == {Relabelled(a, b) : a \in Values, b \in Values}
  IN  relabelled \cup {[g EXCEPT ![OverwriteCell] = v] : g \in relabelled, v \in Values}

\* the grid of test_related_cells: the first row holds 1..9, the rest is empty
RelatedCellsGrid == [index \in Cells |-> IF index[1] = 0 THEN index[2] + 1 ELSE 0]

\* a third family, of grids with few clues: a puzzle of min_clues clues that
\* has one solution, and the same puzzle with one clue less
sparse ==
  << 0,0,0, 0,0,0, 0,1,0,
     4,0,0, 0,0,0, 0,0,0,
     0,2,0, 0,0,0, 0,0,0,
     0,0,0, 0,5,0, 4,0,7,
     0,0,8, 0,0,0, 3,0,0,
     0,0,1, 0,9,0, 0,0,0,
     3,0,0, 4,0,0, 2,0,0,
     0,5,0, 1,0,0, 0,0,0,
     0,0,0, 8,0,6, 0,0,0 >>

SparseGrid == [index \in Cells |-> sparse[Ord(index)]]

LowClueGrids == {SparseGrid, Blanked(SparseGrid, {<<2, 1>>})}

\* the grids of the solvers that are used several times: the samples, a grid
\* on which propagation commits a cell and then stalls, and a grid on which a
\* commit takes a value away from another empty cell
RepeatGrids ==
  SampleGrids \cup {Blanked(SolvedGrid, {<<2, 4>>, <<2, 6>>, <<2, 7>>, <<6, 6>>, <<6, 7>>}),
                    Blanked(SolvedGrid, {<<0, 0>>, <<0, 3>>, <<2, 1>>, <<7, 0>>})}

\* the grids that are constructed and queried, not solved
QueryGrids == SampleGrids \cup LowClueGrids \cup {RelatedCellsGrid}

Strategies == {"auto", "constraint_propagation", "backtracking"}

(***************************************************************************)
(* Grid queries.                                                           *)
(***************************************************************************)
\* the cells of the row, the column and the box of index (index included):
\* the three slices of related_cells
regions ==
  [index \in Cells |->
     LET row == index[1]
         col == index[2]
         box_row == (row \div Box) * Box
         box_col == (col \div Box) * Box
     IN  {c \in Cells : \/ c[1] = row
                        \/ c[2] = col
                        \/ /\ c[1] \in box_row..(box_row + Box - 1)
                           /\ c[2] \in box_col..(box_col + Box - 1)}]

Region(index) == regions[index]

\* np.all(self.state)
IsFull(grid) == \A index \in Cells : grid[index] # 0

\* faulty variant of related_cells: the column of the cell is left out
related_cells_NoColumn(grid, index) ==
  LET masked_grid == [grid EXCEPT ![index] = 0]
  IN  {masked_grid[c] : c \in {d \in Region(index) : d[2] # index[2] \/ d = index}}

\* faulty variant of related_cells: the cell at index is not masked
related_cells_unmasked(grid, index) ==
  {grid[c] : c \in Region(index)}

\* board.py related_cells(grid, index): the cell at index is masked with 0 and
\* the result is the set of everything found in its row, column and box, so
\* the result always contains 0
related_cells(grid, index) ==
  LET masked_grid == [grid EXCEPT ![index] = 0]
  IN  {masked_grid[c] : c \in Region(index)}

\* the one-argument form self.related_cells(index) that solver.py calls and
\* test_board.py tests: the nonzero values of self.state in the row, column
\* and box of index, the cell's own value left out when exclude_index
related_cells_of(grid, index, exclude_index) ==
  {grid[c] : c \in {d \in Region(index) : /\ grid[d] # 0
                                          /\ ~(exclude_index /\ d = index)}}

(***************************************************************************)
(* update_possible_values: the outcome of one run on (grid, pv).  The loop *)
(* subtracts in place, in row-major order, and stops at the first empty    *)
(* cell left without a value; a full grid is then scanned for the first    *)
(* cell whose value is found among its related cells.                      *)
(***************************************************************************)
\* faulty variant of update_possible_values: the sets of the filled cells are
\* reduced as well
update_possible_values_AllCells(grid, pv) ==
  LET reduced(index) == pv[index] \ related_cells(grid, index)
      stuck == {k \in 1..(Side * Side) : reduced(indices[k]) = {}}
      last == IF stuck = {} THEN Side * Side ELSE Min(stuck)
      new_pv == [index \in Cells |->
                   IF Ord(index) <= last THEN reduced(index) ELSE pv[index]]
      clash == {k \in 1..(Side * Side) :
                  grid[indices[k]] \in related_cells(grid, indices[k])}
  IN  IF stuck # {}
      THEN [raised |-> "no_possible_values", index |-> indices[Min(stuck)],
            possible_values |-> new_pv]
      ELSE IF IsFull(grid) /\ clash # {}
      THEN [raised |-> "contradiction", index |-> indices[Min(clash)],
            possible_values |-> new_pv]
      ELSE [raised |-> "none", index |-> <<0, 0>>, possible_values |-> new_pv]

update_possible_values(grid, pv) ==
  LET reduced(index) == pv[index] \ related_cells(grid, index)
      stuck == {k \in 1..(Side * Side) :
                  grid[indices[k]] = 0 /\ reduced(indices[k]) = {}}
      last == IF stuck = {} THEN Side * Side ELSE Min(stuck)
      new_pv == [index \in Cells |->
                   IF grid[index] = 0 /\ Ord(index) <= last
                   THEN reduced(index) ELSE pv[index]]
      clash == {k \in 1..(Side * Side) :
                  grid[indices[k]] \in related_cells(grid, indices[k])}
  IN  IF stuck # {}
      THEN [raised |-> "no_possible_values", index |-> indices[Min(stuck)],
            possible_values |-> new_pv]
      ELSE IF IsFull(grid) /\ clash # {}
      THEN [raised |-> "contradiction", index |-> indices[Min(clash)],
            possible_values |-> new_pv]
      ELSE [raised |-> "none", index |-> <<0, 0>>, possible_values |-> new_pv]

(***************************************************************************)
(* State.                                                                  *)
(***************************************************************************)
VARIABLES
  state,            \* self.state: the grid
  possible_values,  \* self.possible_values: a set of values per cell
  strategy,         \* self.strategy
  max_solve_time,   \* self.max_solve_time, in seconds
  pc,               \* position of the program
  stack,            \* active frames of backtrack that are inside their loop
  ret,              \* value returned by the invocation that last returned
  expired,          \* time.time() - self.start >= self.max_solve_time
  start,            \* self.start: 0 for None, else the number of times the timer was started
  outcome,          \* how construction or solve ended
  raised,           \* the ValueError raised, if any, and the cell it cites
  warned,           \* the multiple-solutions warning was emitted
  related,          \* what the last call of related_cells by the client returned
  direct,           \* a call of propagate_constraints by the client: "no", "running", "returned"
  initial,          \* history: the grid given to the constructor
  fired,            \* history: some deadline check of this solve found the deadline elapsed
  calls,            \* history: number of calls of solve
  searched,         \* history: solve called backtrack
  search_entry,     \* history: the grid when solve called backtrack
  last_entry,       \* history: the grid at entry of the backtrack invocation that last returned
  fixpoint,         \* history: the grid and the result of the last propagate_constraints
                    \* that returned without finding the deadline elapsed
  depth,            \* history: number of active invocations of propagate_constraints
  committed         \* history: the cells written by propagate_constraints

vars == <<state, possible_values, strategy, max_solve_time, pc, stack, ret,
          expired, start, outcome, raised, warned, related, direct, initial,
          fired, calls, searched, search_entry, last_entry, fixpoint, depth,
          committed>>

NoError == [kind |-> "none", index |-> <<0, 0>>]
NoGrid == [index \in Cells |-> 0]
NoQuery == [index |-> <<0, 0>>, result |-> {}, asked |-> FALSE]
NoFixpoint == [state |-> NoGrid, ret |-> FALSE, known |-> FALSE]

\* board.py line 147: a grid with fewer filled cells draws the warning
min_clues == 17

\* solver.py line 84: the default of max_solve_time, in seconds
default_max_solve_time == 60

\* a read of the clock: once expired, always expired.  The runs considered
\* last less than default_max_solve_time seconds: a deadline that long is
\* never found elapsed, a shorter one may be found elapsed at any read.
ClockReads ==
  IF expired THEN {TRUE}
  ELSE IF max_solve_time >= default_max_solve_time THEN {FALSE}
  ELSE {FALSE, TRUE}

\* a deadline that a run can reach
ShortDeadlines == {1}

InitConfig(grids, strategies, times) ==
  /\ state \in grids
  /\ strategy \in strategies
  /\ max_solve_time \in times
  /\ possible_values = [index \in Cells |-> Values]
  /\ pc = "new"
  /\ stack = <<>>
  /\ ret = FALSE
  /\ expired = FALSE
  /\ start = 0
  /\ outcome = "none"
  /\ raised = NoError
  /\ warned = FALSE
  /\ related = NoQuery
  /\ direct = "no"
  /\ initial = state
  /\ fired = FALSE
  /\ calls = 0
  /\ searched = FALSE
  /\ search_entry = NoGrid
  /\ last_entry = NoGrid
  /\ fixpoint = NoFixpoint
  /\ depth = 0
  /\ committed = {}

InitWith(grids) == InitConfig(grids, Strategies, ShortDeadlines)

Init == InitWith(InitialGrids)

(***************************************************************************)
(* sudokuSolver.__init__: the constructor of the board (from the warning   *)
(* on: the grid has the right shape and values) emits the warning and runs *)
(* update_possible_values, which may raise; then the strategy and          *)
(* max_solve_time are checked.                                             *)
(***************************************************************************)
\* faulty variant of Construct: a max_solve_time of zero is accepted
Construct_ZeroAccepted ==
  /\ pc = "new"
  /\ warned' = (Cardinality({index \in Cells : state[index] # 0}) < min_clues)
  /\ LET u == update_possible_values(state, possible_values)
     IN  /\ possible_values' = u.possible_values
         /\ IF u.raised # "none"
            THEN /\ pc' = "done"
                 /\ outcome' = "ValueError"
                 /\ raised' = [kind |-> u.raised, index |-> u.index]
            ELSE IF strategy \notin Strategies
            THEN /\ pc' = "done"
                 /\ outcome' = "ValueError"
                 /\ raised' = [kind |-> "invalid_strategy", index |-> <<0, 0>>]
            ELSE IF max_solve_time < 0
            THEN /\ pc' = "done"
                 /\ outcome' = "ValueError"
                 /\ raised' = [kind |-> "invalid_max_solve_time", index |-> <<0, 0>>]
            ELSE /\ pc' = "ready"
                 /\ UNCHANGED <<outcome, raised>>
  /\ UNCHANGED <<state, strategy, max_solve_time, committed, depth, start, fixpoint, related,
                 direct, stack, ret, expired, initial, fired, calls, searched,
                 search_entry, last_entry>>

Construct ==
  /\ pc = "new"
  /\ warned' = (Cardinality({index \in Cells : state[index] # 0}) < min_clues)
  /\ LET u == update_possible_values(state, possible_values)
     IN  /\ possible_values' = u.possible_values
         /\ IF u.raised # "none"
            THEN /\ pc' = "done"
                 /\ outcome' = "ValueError"
                 /\ raised' = [kind |-> u.raised, index |-> u.index]
            ELSE IF strategy \notin Strategies
            THEN /\ pc' = "done"
                 /\ outcome' = "ValueError"
                 /\ raised' = [kind |-> "invalid_strategy", index |-> <<0, 0>>]
            ELSE IF max_solve_time <= 0
            THEN /\ pc' = "done"
                 /\ outcome' = "ValueError"
                 /\ raised' = [kind |-> "invalid_max_solve_time", index |-> <<0, 0>>]
            ELSE /\ pc' = "ready"
                 /\ UNCHANGED <<outcome, raised>>
  /\ UNCHANGED <<state, strategy, max_solve_time, committed, depth, start, fixpoint, related,
                 direct, stack, ret, expired, initial, fired, calls, searched,
                 search_entry, last_entry>>

(***************************************************************************)
(* sudokuSolver.solve, entry (lines 189-203): a full board is reported     *)
(* solved at once; otherwise the timer starts and the first enabled        *)
(* strategy is called.                                                     *)
(***************************************************************************)
Finish(result) ==
  /\ pc' = "done"
  /\ outcome' = result

\* faulty variant of Classify: the last branch does not look at the clock
Classify_NoClock(now) ==
  /\ expired' = now
  /\ IF strategy = "constraint_propagation"
     THEN Finish("not_solved") /\ UNCHANGED raised
     ELSE Finish("ValueError") /\ raised' = [kind |-> "no_solutions", index |-> <<0, 0>>]

\* solve lines 209-228: the last branch of the chain reads the clock
Classify(now) ==
  /\ expired' = now
  /\ IF ~now
     THEN IF strategy = "constraint_propagation"
          THEN Finish("not_solved") /\ UNCHANGED raised
          ELSE Finish("ValueError") /\ raised' = [kind |-> "no_solutions", index |-> <<0, 0>>]
     ELSE Finish("timeout") /\ UNCHANGED raised

\* faulty variant of Solve: the timer is started before the grid is looked at
Solve_TimerFirst ==
  /\ pc = "ready"
  /\ calls' = calls + 1
  /\ start' = start + 1
  /\ expired' = FALSE
  /\ IF IsFull(state)
     THEN /\ Finish("success")
          /\ UNCHANGED <<fired, searched, search_entry, depth>>
     ELSE /\ fired' = FALSE
          /\ UNCHANGED outcome
          /\ IF strategy # "backtracking"
             THEN pc' = "propagate" /\ UNCHANGED <<searched, search_entry>> /\ depth' = 1
             ELSE pc' = "backtrack" /\ searched' = TRUE /\ search_entry' = state /\ UNCHANGED depth
  /\ UNCHANGED <<state, possible_values, strategy, max_solve_time, committed, warned,
                 fixpoint, related, direct, stack, ret, raised, initial,
                 last_entry>>

\* faulty variant of Solve: propagate_constraints is called whatever the strategy
Solve_AlwaysPropagate ==
  /\ pc = "ready"
  /\ calls' = calls + 1
  /\ IF IsFull(state)
     THEN /\ Finish("success")
          /\ UNCHANGED <<expired, start, fired, searched, search_entry, depth>>
     ELSE /\ start' = start + 1
          /\ expired' = FALSE
          /\ fired' = FALSE
          /\ UNCHANGED outcome
          /\ pc' = "propagate" /\ UNCHANGED <<searched, search_entry>> /\ depth' = 1
  /\ UNCHANGED <<state, possible_values, strategy, max_solve_time, committed, warned,
                 fixpoint, related, direct, stack, ret, raised, initial,
                 last_entry>>

Solve ==
  /\ pc = "ready"
  /\ calls' = calls + 1
  /\ IF IsFull(state)
     THEN /\ Finish("success")
          /\ UNCHANGED <<expired, start, fired, searched, search_entry, depth>>
     ELSE /\ start' = start + 1
          /\ expired' = FALSE
          /\ fired' = FALSE
          /\ UNCHANGED outcome
          /\ IF strategy # "backtracking"
             THEN pc' = "propagate" /\ UNCHANGED <<searched, search_entry>> /\ depth' = 1
             ELSE pc' = "backtrack" /\ searched' = TRUE /\ search_entry' = state /\ UNCHANGED depth
  /\ UNCHANGED <<state, possible_values, strategy, max_solve_time, committed, warned,
                 fixpoint, related, direct, stack, ret, raised, initial,
                 last_entry>>

(***************************************************************************)
(* One invocation of propagate_constraints (lines 119-135), up to its      *)
(* recursive call or its return.  The recursive call is in tail position:  *)
(* what the innermost invocation returns is what solve receives.           *)
(***************************************************************************)
\* positions in self.indices of the cells whose stored set has one element
\* faulty variant of Singles: a cell with two values left counts as well
Singles_UpToTwo(pv) == {k \in 1..(Side * Side) : Cardinality(pv[indices[k]]) \in {1, 2}}

Singles(pv) == {k \in 1..(Side * Side) : Cardinality(pv[indices[k]]) = 1}

TheOne(S) == CHOOSE x \in S : TRUE

\* faulty variant of Propagate: the stored sets are not recomputed before the scan
Propagate_Stale(now) ==
  LET singles == Singles(possible_values)
      index == indices[Min(singles)]
  IN  IF IsFull(state)
      THEN /\ ret' = TRUE
           /\ pc' = "propagate_returned"
           /\ depth' = 0
           /\ fixpoint' = [state |-> state, ret |-> TRUE, known |-> TRUE]
           /\ UNCHANGED <<state, possible_values, expired, fired, outcome, raised>>
      ELSE /\ expired' = now
           /\ IF now
              THEN /\ fired' = TRUE
                   /\ ret' = FALSE
                   /\ pc' = "propagate_returned"
                   /\ depth' = 0
                   /\ UNCHANGED <<state, possible_values, outcome, raised, fixpoint>>
              ELSE IF singles # {}
              THEN /\ state' = [state EXCEPT ![index] = TheOne(possible_values[index])]
                   /\ possible_values' = [possible_values EXCEPT ![index] = {}]
                   /\ pc' = "propagate"
                   /\ depth' = depth + 1
                   /\ UNCHANGED <<ret, fired, outcome, raised, fixpoint>>
              ELSE /\ ret' = FALSE
                   /\ pc' = "propagate_returned"
                   /\ depth' = 0
                   /\ fixpoint' = [state |-> state, ret |-> FALSE, known |-> TRUE]
                   /\ UNCHANGED <<state, possible_values, fired, outcome, raised>>

\* faulty variant of Propagate: the cell with one value left that comes last
\* in self.indices is committed, not the first
Propagate_LastSingle(now) ==
  LET u == update_possible_values(state, possible_values)
      singles == Singles(u.possible_values)
      index == indices[Max(singles)]
  IN  IF IsFull(state)
      THEN /\ ret' = TRUE
           /\ pc' = "propagate_returned"
           /\ depth' = 0
           /\ fixpoint' = [state |-> state, ret |-> TRUE, known |-> TRUE]
           /\ UNCHANGED <<state, possible_values, expired, fired, outcome, raised>>
      ELSE /\ expired' = now
           /\ IF now
              THEN /\ fired' = TRUE
                   /\ ret' = FALSE
                   /\ pc' = "propagate_returned"
                   /\ depth' = 0
                   /\ UNCHANGED <<state, possible_values, outcome, raised, fixpoint>>
              ELSE IF u.raised # "none"
              THEN /\ possible_values' = u.possible_values
                   /\ Finish("ValueError")
                   /\ depth' = 0
                   /\ raised' = [kind |-> u.raised, index |-> u.index]
                   /\ UNCHANGED <<state, ret, fired, fixpoint>>
              ELSE IF singles # {}
              THEN /\ state' = [state EXCEPT ![index] = TheOne(u.possible_values[index])]
                   /\ possible_values' = [u.possible_values EXCEPT ![index] = {}]
                   /\ pc' = "propagate"
                   /\ depth' = depth + 1
                   /\ UNCHANGED <<ret, fired, outcome, raised, fixpoint>>
              ELSE /\ possible_values' = u.possible_values
                   /\ ret' = FALSE
                   /\ pc' = "propagate_returned"
                   /\ depth' = 0
                   /\ fixpoint' = [state |-> state, ret |-> FALSE, known |-> TRUE]
                   /\ UNCHANGED <<state, fired, outcome, raised>>

\* faulty variant of Propagate: after a commit the invocation returns False
\* instead of calling itself again
Propagate_OneCommit(now) ==
  LET u == update_possible_values(state, possible_values)
      singles == Singles(u.possible_values)
      index == indices[Min(singles)]
  IN  IF IsFull(state)
      THEN /\ ret' = TRUE
           /\ pc' = "propagate_returned"
           /\ depth' = 0
           /\ fixpoint' = [state |-> state, ret |-> TRUE, known |-> TRUE]
           /\ UNCHANGED <<state, possible_values, expired, fired, outcome, raised>>
      ELSE /\ expired' = now
           /\ IF now
              THEN /\ fired' = TRUE
                   /\ ret' = FALSE
                   /\ pc' = "propagate_returned"
                   /\ depth' = 0
                   /\ UNCHANGED <<state, possible_values, outcome, raised, fixpoint>>
              ELSE IF u.raised # "none"
              THEN /\ possible_values' = u.possible_values
                   /\ Finish("ValueError")
                   /\ depth' = 0
                   /\ raised' = [kind |-> u.raised, index |-> u.index]
                   /\ UNCHANGED <<state, ret, fired, fixpoint>>
              ELSE IF singles # {}
              THEN /\ state' = [state EXCEPT ![index] = TheOne(u.possible_values[index])]
                   /\ possible_values' = [u.possible_values EXCEPT ![index] = {}]
                   /\ ret' = FALSE
                   /\ pc' = "propagate_returned"
                   /\ depth' = 0
                   /\ fixpoint' = [state |-> state', ret |-> FALSE, known |-> TRUE]
                   /\ UNCHANGED <<fired, outcome, raised>>
              ELSE /\ possible_values' = u.possible_values
                   /\ ret' = FALSE
                   /\ pc' = "propagate_returned"
                   /\ depth' = 0
                   /\ fixpoint' = [state |-> state, ret |-> FALSE, known |-> TRUE]
                   /\ UNCHANGED <<state, fired, outcome, raised>>

\* the recorded fixpoint is the grid on which the invocation returned
Propagate(now) ==
  LET u == update_possible_values(state, possible_values)
      singles == Singles(u.possible_values)
      index == indices[Min(singles)]
  IN  IF IsFull(state)
      THEN /\ ret' = TRUE
           /\ pc' = "propagate_returned"
           /\ depth' = 0
           /\ fixpoint' = [state |-> state, ret |-> TRUE, known |-> TRUE]
           /\ UNCHANGED <<state, possible_values, expired, fired, outcome, raised>>
      ELSE /\ expired' = now
           /\ IF now
              THEN /\ fired' = TRUE
                   /\ ret' = FALSE
                   /\ pc' = "propagate_returned"
                   /\ depth' = 0
                   /\ UNCHANGED <<state, possible_values, outcome, raised, fixpoint>>
              ELSE IF u.raised # "none"
              THEN /\ possible_values' = u.possible_values
                   /\ Finish("ValueError")
                   /\ depth' = 0
                   /\ raised' = [kind |-> u.raised, index |-> u.index]
                   /\ UNCHANGED <<state, ret, fired, fixpoint>>
              ELSE IF singles # {}
              THEN /\ state' = [state EXCEPT ![index] = TheOne(u.possible_values[index])]
                   /\ possible_values' = [u.possible_values EXCEPT ![index] = {}]
                   /\ pc' = "propagate"
                   /\ depth' = depth + 1
                   /\ UNCHANGED <<ret, fired, outcome, raised, fixpoint>>
              ELSE /\ possible_values' = u.possible_values
                   /\ ret' = FALSE
                   /\ pc' = "propagate_returned"
                   /\ depth' = 0
                   /\ fixpoint' = [state |-> state, ret |-> FALSE, known |-> TRUE]
                   /\ UNCHANGED <<state, fired, outcome, raised>>

propagate_constraints ==
  /\ pc = "propagate"
  /\ \E now \in ClockReads : Propagate(now)
  /\ committed' = committed \cup {index \in Cells : state'[index] # state[index]}
  /\ UNCHANGED <<strategy, max_solve_time, warned, start,
                 related, direct, stack, initial, calls, searched, search_entry,
                 last_entry>>

\* faulty variant of SolveAfterPropagate: the search is called whatever the strategy
SolveAfterPropagate_AlwaysSearch ==
  /\ pc = "propagate_returned"
  /\ direct # "running"
  /\ IF ret
     THEN /\ Finish("success")
          /\ UNCHANGED <<expired, raised, searched, search_entry>>
     ELSE /\ pc' = "backtrack"
          /\ searched' = TRUE
          /\ search_entry' = state
          /\ UNCHANGED <<expired, outcome, raised>>
  /\ UNCHANGED <<state, possible_values, strategy, max_solve_time, committed, depth, warned, start,
                 fixpoint, related, direct, stack, ret, initial, fired,
                 calls, last_entry>>

\* solve, after propagate_constraints returned (lines 198-203)
SolveAfterPropagate ==
  /\ pc = "propagate_returned"
  /\ direct # "running"
  /\ IF ret
     THEN /\ Finish("success")
          /\ UNCHANGED <<expired, raised, searched, search_entry>>
     ELSE IF strategy # "constraint_propagation"
     THEN /\ pc' = "backtrack"
          /\ searched' = TRUE
          /\ search_entry' = state
          /\ UNCHANGED <<expired, outcome, raised>>
     ELSE /\ \E now \in ClockReads : Classify(now)
          /\ UNCHANGED <<searched, search_entry>>
  /\ UNCHANGED <<state, possible_values, strategy, max_solve_time, committed, depth, warned, start,
                 fixpoint, related, direct, stack, ret, initial, fired,
                 calls, last_entry>>

(***************************************************************************)
(* backtrack (lines 146-173).  An invocation that reaches its loop pushes  *)
(* a frame: the cell it selected, the values it has still to try and (as   *)
(* history) the grid it was entered with.                                  *)
(***************************************************************************)
\* faulty variant of SelectCell: the first empty cell is taken
SelectCell_FirstEmpty(grid) ==
  indices[Min({k \in 1..(Side * Side) : grid[indices[k]] = 0})]

\* lines 155-161: np.argmax over self.indices of the number of related values
\* of the empty cells (0 for a filled cell); argmax returns the first maximum
SelectCell(grid) ==
  LET count(k) == IF grid[indices[k]] = 0
                  THEN Cardinality(related_cells_of(grid, indices[k], FALSE))
                  ELSE 0
      best == CHOOSE k \in 1..(Side * Side) :
                \A j \in 1..(Side * Side) :
                   count(j) < count(k) \/ (count(j) = count(k) /\ k <= j)
  IN  indices[best]

\* faulty variant of LegalValues: the largest value is never tried
LegalValues_Short(grid, pv, index) ==
  (pv[index] \ related_cells_of(grid, index, FALSE)) \ {Side}

\* faulty variant of LegalValues: the values held by the peers are not taken away
LegalValues_StoredOnly(grid, pv, index) == pv[index]

\* line 164: the values the loop iterates over
LegalValues(grid, pv, index) == pv[index] \ related_cells_of(grid, index, FALSE)

\* lines 146-164: entry of an invocation
BacktrackEnter(now) ==
  IF IsFull(state)
  THEN /\ ret' = TRUE
       /\ pc' = "backtrack_returned"
       /\ last_entry' = state
       /\ UNCHANGED <<stack, expired, fired>>
  ELSE /\ expired' = now
       /\ IF now
          THEN /\ fired' = TRUE
               /\ ret' = FALSE
               /\ pc' = "backtrack_returned"
               /\ last_entry' = state
               /\ UNCHANGED stack
          ELSE LET index == SelectCell(state)
               IN  /\ stack' = Append(stack,
                                  [index |-> index,
                                   values |-> LegalValues(state, possible_values, index),
                                   entry |-> state])
                   /\ pc' = "backtrack_loop"
                   /\ UNCHANGED <<ret, fired, last_entry>>

\* faulty variant of backtrack: every invocation also reduces the stored sets
\* by the values on the grid, trial values included
backtrack_Updating ==
  /\ pc = "backtrack"
  /\ \E now \in ClockReads : BacktrackEnter(now)
  /\ possible_values' = update_possible_values(state, possible_values).possible_values
  /\ UNCHANGED <<state, strategy, max_solve_time, committed, depth, warned, start,
                 fixpoint, related, direct, outcome, raised, initial,
                 calls, searched, search_entry>>

backtrack ==
  /\ pc = "backtrack"
  /\ \E now \in ClockReads : BacktrackEnter(now)
  /\ UNCHANGED <<state, possible_values, strategy, max_solve_time, committed, depth, warned, start,
                 fixpoint, related, direct, outcome, raised, initial,
                 calls, searched, search_entry>>

Top == stack[Len(stack)]
Pop == SubSeq(stack, 1, Len(stack) - 1)

\* faulty variant of BacktrackLoop: the value is not written before the call
BacktrackLoop_NoWrite ==
  /\ pc = "backtrack_loop"
  /\ IF Top.values = {}
     THEN /\ stack' = Pop
          /\ ret' = FALSE
          /\ last_entry' = Top.entry
          /\ pc' = "backtrack_returned"
          /\ UNCHANGED state
     ELSE \E value \in Top.values :
            /\ stack' = [stack EXCEPT ![Len(stack)].values = @ \ {value}]
            /\ pc' = "backtrack"
            /\ UNCHANGED <<state, ret, last_entry>>
  /\ UNCHANGED <<possible_values, strategy, max_solve_time, committed, depth, warned, start,
                 fixpoint, related, direct, expired, outcome, raised, initial,
                 fired, calls, searched, search_entry>>

\* faulty variant of BacktrackLoop: a value that was tried stays to be tried
BacktrackLoop_NoRemove ==
  /\ pc = "backtrack_loop"
  /\ IF Top.values = {}
     THEN /\ stack' = Pop
          /\ ret' = FALSE
          /\ last_entry' = Top.entry
          /\ pc' = "backtrack_returned"
          /\ UNCHANGED state
     ELSE \E value \in Top.values :
            /\ state' = [state EXCEPT ![Top.index] = value]
            /\ pc' = "backtrack"
            /\ UNCHANGED <<stack, ret, last_entry>>
  /\ UNCHANGED <<possible_values, strategy, max_solve_time, committed, depth, warned, start,
                 fixpoint, related, direct, expired, outcome, raised, initial,
                 fired, calls, searched, search_entry>>

\* lines 164-166 and 173: the loop head of the innermost frame.  The loop runs
\* over a Python set, whose iteration order is not specified: any value not
\* yet tried may come next.
BacktrackLoop ==
  /\ pc = "backtrack_loop"
  /\ IF Top.values = {}
     THEN /\ stack' = Pop
          /\ ret' = FALSE
          /\ last_entry' = Top.entry
          /\ pc' = "backtrack_returned"
          /\ UNCHANGED state
     ELSE \E value \in Top.values :
            /\ state' = [state EXCEPT ![Top.index] = value]
            /\ stack' = [stack EXCEPT ![Len(stack)].values = @ \ {value}]
            /\ pc' = "backtrack"
            /\ UNCHANGED <<ret, last_entry>>
  /\ UNCHANGED <<possible_values, strategy, max_solve_time, committed, depth, warned, start,
                 fixpoint, related, direct, expired, outcome, raised, initial,
                 fired, calls, searched, search_entry>>

\* faulty variant of BacktrackReturn: the cell is not reset after a failed call
BacktrackReturn_NoReset ==
  /\ pc = "backtrack_returned"
  /\ stack # <<>>
  /\ IF ret
     THEN /\ stack' = Pop
          /\ last_entry' = Top.entry
          /\ pc' = "backtrack_returned"
     ELSE /\ pc' = "backtrack_loop"
          /\ UNCHANGED <<stack, last_entry>>
  /\ UNCHANGED <<state, possible_values, strategy, max_solve_time, committed, depth, warned, start,
                 fixpoint, related, direct, ret, expired, outcome, raised,
                 initial, fired, calls, searched, search_entry>>

\* faulty variant of BacktrackReturn: once the deadline has elapsed a failed
\* call makes the frame return at once, before the cell is reset
BacktrackReturn_TimeoutSkipsReset ==
  /\ pc = "backtrack_returned"
  /\ stack # <<>>
  /\ IF ret \/ expired
     THEN /\ stack' = Pop
          /\ last_entry' = Top.entry
          /\ pc' = "backtrack_returned"
          /\ UNCHANGED state
     ELSE /\ state' = [state EXCEPT ![Top.index] = 0]
          /\ pc' = "backtrack_loop"
          /\ UNCHANGED <<stack, last_entry>>
  /\ UNCHANGED <<possible_values, strategy, max_solve_time, committed, depth, warned, start,
                 fixpoint, related, direct, ret, expired, outcome, raised,
                 initial, fired, calls, searched, search_entry>>

\* lines 166-170: a recursive call came back to the frame that made it
BacktrackReturn ==
  /\ pc = "backtrack_returned"
  /\ stack # <<>>
  /\ IF ret
     THEN /\ stack' = Pop
          /\ last_entry' = Top.entry
          /\ pc' = "backtrack_returned"
          /\ UNCHANGED state
     ELSE /\ state' = [state EXCEPT ![Top.index] = 0]
          /\ pc' = "backtrack_loop"
          /\ UNCHANGED <<stack, last_entry>>
  /\ UNCHANGED <<possible_values, strategy, max_solve_time, committed, depth, warned, start,
                 fixpoint, related, direct, ret, expired, outcome, raised,
                 initial, fired, calls, searched, search_entry>>

\* faulty variant of SolveAfterBacktrack: after a failed search the grid is
\* put back to the grid given to the constructor
SolveAfterBacktrack_RestoresInitial ==
  /\ pc = "backtrack_returned"
  /\ stack = <<>>
  /\ IF ret
     THEN Finish("success") /\ UNCHANGED <<state, expired, raised>>
     ELSE /\ state' = initial
          /\ \E now \in ClockReads : Classify(now)
  /\ UNCHANGED <<possible_values, strategy, max_solve_time, committed, depth, warned,
                 start, fixpoint, related, direct, stack, ret, initial, fired,
                 calls, searched, search_entry, last_entry>>

\* faulty variant of SolveAfterBacktrack: success is reported whatever
\* backtrack returned
SolveAfterBacktrack_IgnoresResult ==
  /\ pc = "backtrack_returned"
  /\ stack = <<>>
  /\ Finish("success") /\ UNCHANGED <<expired, raised>>
  /\ UNCHANGED <<state, possible_values, strategy, max_solve_time, committed, depth, warned, start,
                 fixpoint, related, direct, stack, ret, initial, fired,
                 calls, searched, search_entry, last_entry>>

\* solve, after the outermost backtrack returned (lines 203-228)
SolveAfterBacktrack ==
  /\ pc = "backtrack_returned"
  /\ stack = <<>>
  /\ IF ret
     THEN Finish("success") /\ UNCHANGED <<expired, raised>>
     ELSE \E now \in ClockReads : Classify(now)
  /\ UNCHANGED <<state, possible_values, strategy, max_solve_time, committed, depth, warned, start,
                 fixpoint, related, direct, stack, ret, initial, fired,
                 calls, searched, search_entry, last_entry>>

(***************************************************************************)
(* What the client can do with a constructed solver besides one call of    *)
(* solve: call solve again after it returned, call propagate_constraints   *)
(* itself, and query related_cells.                                        *)
(***************************************************************************)
\* how many times solve is called on one solver
MaxCalls == 2

\* solve returned (it did not raise) and is called again
SolveAgain ==
  /\ pc = "done"
  /\ calls > 0 /\ calls < MaxCalls
  /\ direct # "running"
  /\ outcome \in {"success", "not_solved", "timeout"}
  /\ pc' = "ready"
  /\ outcome' = "none"
  /\ fired' = FALSE
  /\ searched' = FALSE
  /\ search_entry' = NoGrid
  /\ last_entry' = NoGrid
  /\ UNCHANGED <<state, possible_values, strategy, max_solve_time, committed, depth, warned, start,
                 fixpoint, related, direct, stack, ret, expired, raised, initial,
                 calls>>

\* solve returned and the client calls propagate_constraints itself, once;
\* the timer is the one the last solve started
Repropagate ==
  /\ pc = "done"
  /\ calls > 0
  /\ direct = "no"
  /\ outcome \in {"success", "not_solved", "timeout"}
  /\ pc' = "propagate"
  /\ direct' = "running"
  /\ depth' = 1
  /\ fired' = FALSE
  /\ UNCHANGED <<state, possible_values, strategy, max_solve_time, committed, warned, start,
                 fixpoint, related, stack, ret, expired, outcome, raised, initial,
                 calls, searched, search_entry, last_entry>>

\* the call of propagate_constraints by the client returned
PropagateReturned ==
  /\ pc = "propagate_returned"
  /\ direct = "running"
  /\ pc' = "done"
  /\ direct' = "returned"
  /\ UNCHANGED <<state, possible_values, strategy, max_solve_time, committed, depth, warned, start,
                 fixpoint, related, stack, ret, expired, outcome, raised, initial,
                 fired, calls, searched, search_entry, last_entry>>

\* the client calls related_cells(self.state, index) on a constructed board
\* (one call is modelled: the function changes nothing)
RelatedCells ==
  /\ pc = "ready"
  /\ ~related.asked
  /\ \E index \in Cells :
       related' = [index |-> index, result |-> related_cells(state, index),
                   asked |-> TRUE]
  /\ UNCHANGED <<state, possible_values, strategy, max_solve_time, committed, depth, warned, start,
                 fixpoint, direct, pc, stack, ret, expired, outcome, raised,
                 initial, fired, calls, searched, search_entry, last_entry>>

Next ==
  \/ Construct
  \/ Solve
  \/ propagate_constraints
  \/ SolveAfterPropagate
  \/ backtrack
  \/ BacktrackLoop
  \/ BacktrackReturn
  \/ SolveAfterBacktrack

Spec == Init /\ [][Next]_vars

\* the program is sequential and runs until solve returns: a step that can be
\* taken is eventually taken
FairSpec == InitWith(SampleGrids) /\ [][Next]_vars /\ WF_vars(Next)

\* construction and solve on the family of full grids
FullInit == InitWith(FullGrids)

FullNext ==
  \/ Construct
  \/ Solve

FullSpec == FullInit /\ [][FullNext]_vars

\* one solver used several times: solve called up to MaxCalls times and
\* propagate_constraints called by the client
RepeatNext ==
  \/ Next
  \/ SolveAgain
  \/ Repropagate
  \/ PropagateReturned

RepeatSpec == InitWith(RepeatGrids) /\ [][RepeatNext]_vars

\* construction with any strategy name and any max_solve_time
StrategyNames == Strategies \cup {"invalid_strategy"}
SolveTimes == {-1, 0, 1, default_max_solve_time}

ConfigSpec == InitConfig(SampleGrids, StrategyNames, SolveTimes) /\ [][Next]_vars

\* construction and queries of related_cells
QueryNext ==
  \/ Construct
  \/ RelatedCells

QuerySpec == InitWith(QueryGrids) /\ [][QueryNext]_vars

TypeOK ==
  /\ state \in [Cells -> 0..Side]
  /\ possible_values \in [Cells -> SUBSET Values]
  /\ strategy \in StrategyNames
  /\ max_solve_time \in SolveTimes
  /\ pc \in {"new", "ready", "propagate", "propagate_returned", "backtrack",
             "backtrack_loop", "backtrack_returned", "done"}
  /\ outcome \in {"none", "success", "not_solved", "timeout", "ValueError"}
  /\ ret \in BOOLEAN /\ expired \in BOOLEAN /\ fired \in BOOLEAN
  /\ warned \in BOOLEAN /\ start \in 0..MaxCalls /\ calls \in 0..MaxCalls
  /\ direct \in {"no", "running", "returned"}
  /\ depth \in 0..(Side * Side + 1)
  /\ committed \subseteq Cells

(***************************************************************************)
(* Predicates on grids used by the properties.  They are written from the  *)
(* rules of the puzzle, not from the solver's own queries.                 *)
(***************************************************************************)
Peers(index) == Region(index) \ {index}

\* the filled cells that share their value with a peer
Conflicts(grid) ==
  {a \in Cells : grid[a] # 0 /\ \E b \in Peers(a) : grid[b] = grid[a]}

NoPeerClash(grid) == Conflicts(grid) = {}

Empties(grid) == {index \in Cells : grid[index] = 0}

\* the values no peer of index holds
Free(grid, index) == Values \ {grid[b] : b \in Peers(index)}

\* grid can be completed to a full grid in which no two peers share a value
RECURSIVE Fillable(_)
Fillable(grid) ==
  IF Empties(grid) = {}
  THEN TRUE
  ELSE LET index == indices[Min({Ord(e) : e \in Empties(grid)})]
       IN  \E v \in Free(grid, index) : Fillable([grid EXCEPT ![index] = v])

Completable(grid) == NoPeerClash(grid) /\ Fillable(grid)

\* naked-single elimination by the rules: while some empty cell has a single
\* free value, the first such cell in row-major order receives it
RECURSIVE NakedSingles(_)
NakedSingles(grid) ==
  LET forced == {k \in 1..(Side * Side) :
                   grid[indices[k]] = 0 /\ Cardinality(Free(grid, indices[k])) = 1}
      index == indices[Min(forced)]
  IN  IF Empties(grid) = {} THEN "solved"
      ELSE IF \E e \in Empties(grid) : Free(grid, e) = {} THEN "dead"
      ELSE IF forced = {} THEN "stalled"
      ELSE NakedSingles([grid EXCEPT ![index] = TheOne(Free(grid, index))])

\* two empty peer cells whose only remaining candidate is the same value
ForcedDuplicate(grid) ==
  \E a \in Empties(grid) : \E b \in Peers(a) \cap Empties(grid) :
     /\ Cardinality(Free(grid, a)) = 1
     /\ Free(grid, a) = Free(grid, b)

\* every row, column and box of the grid is a permutation of 1..9
Rows == {{<<r, c>> : c \in 0..(Side - 1)} : r \in 0..(Side - 1)}
Cols == {{<<r, c>> : r \in 0..(Side - 1)} : c \in 0..(Side - 1)}
Boxes == {{<<Box * i + r, Box * j + c>> : r \in 0..(Box - 1), c \in 0..(Box - 1)} :
            i \in 0..(Box - 1), j \in 0..(Box - 1)}
AllPermutations(grid) ==
  \A unit \in Rows \cup Cols \cup Boxes : {grid[index] : index \in unit} = Values

Returned == pc = "done" /\ calls > 0

(***************************************************************************)
(* Properties.                                                             *)
(***************************************************************************)

\* C1: whenever solve reports success, the grid is full and no two peer
\* cells hold the same value.
C1_Soundness ==
  (Returned /\ outcome = "success") => (IsFull(state) /\ NoPeerClash(state))

\* C1 restricted to the boards whose clues do not clash: the restriction under
\* which the solver is sound.
C1_SoundOnCleanClues ==
  (Returned /\ outcome = "success" /\ NoPeerClash(initial))
     => (IsFull(state) /\ NoPeerClash(state))

\* C2: once a deadline check of propagate_constraints or backtrack has found
\* the deadline elapsed, solve raises nothing, does not report success, and
\* ends with the timeout outcome.
C2_DeadlineMeansTimeout ==
  fired => /\ outcome \in {"none", "timeout"}
           /\ (pc = "done" => outcome = "timeout")

C2_Witness ==
  /\ Returned /\ fired /\ outcome = "timeout"
  /\ searched /\ strategy = "auto" /\ state # initial

C8_Done == pc = "done"

C9_DuplicateRaises ==
  (pc # "new" /\ ~NoPeerClash(initial))
     => /\ outcome = "ValueError" /\ calls = 0
        /\ raised.kind = "contradiction" => raised.index \in Conflicts(initial)

\* C10: for a full grid whose rows, columns and boxes are permutations of
\* 1..9, construction raises nothing.
C10_ValidFullGridAccepted ==
  (pc # "new" /\ IsFull(initial) /\ AllPermutations(initial))
     => (raised.kind = "none" /\ outcome # "ValueError")

C10_Witness ==
  /\ pc = "ready" /\ IsFull(initial) /\ AllPermutations(initial)
  /\ initial # SolvedGrid

\* C11 (the part on construction): the warning is emitted exactly for the
\* grids with fewer than min_clues filled cells, and it aborts nothing: a
\* construction in which no ValueError is raised ends with a usable board.
C11_WarningOnFewClues ==
  pc # "new"
     => /\ warned <=> (Cardinality(Cells \ Empties(initial)) < min_clues)
        /\ raised.kind = "none" => pc = "ready"

C11_WarningWitness ==
  /\ pc = "ready" /\ warned
  /\ Cardinality(Cells \ Empties(initial)) = min_clues - 1

\* C12: when an invocation of propagate_constraints starts on the grid on
\* which the last one returned without finding the deadline elapsed, it
\* changes no cell and returns what that one returned.
C12_PropagateIdempotent ==
  [][(pc = "propagate" /\ fixpoint.known /\ fixpoint.state = state)
       => /\ pc' = "propagate_returned"
          /\ state' = state
          /\ ret' = fixpoint.ret]_vars

\* propagation made commits and stalled, and the client's second call came
\* back without the deadline elapsing
C12_Witness ==
  /\ pc = "done" /\ direct = "returned" /\ ~expired
  /\ outcome = "not_solved" /\ fixpoint.known /\ ~fixpoint.ret
  /\ state = fixpoint.state /\ state # initial

\* C13: a solver given a strategy that is not one of the three, or a
\* max_solve_time that is not positive, is not constructed: a ValueError is
\* raised and solve never runs.
C13_InvalidConfigRejected ==
  /\ (pc # "new" /\ (strategy \notin Strategies \/ max_solve_time <= 0))
        => (pc = "done" /\ outcome = "ValueError" /\ calls = 0 /\ start = 0)
  /\ raised.kind = "invalid_strategy" => strategy \notin Strategies
  /\ raised.kind = "invalid_max_solve_time" => max_solve_time <= 0

C13_Witness ==
  /\ pc = "done" /\ raised.kind = "invalid_max_solve_time"
  /\ strategy \in Strategies /\ max_solve_time = 0

\* C14: related_cells returns exactly the nonzero values found in the row,
\* the column and the box of index; 0 is never a member.  (related_cells of
\* board.py takes the grid and the index and always leaves the cell's own
\* value out: it is compared with the values of the 20 other cells.)
C14_RelatedCells ==
  related.asked
     => /\ 0 \notin related.result
        /\ related.result = {state[b] : b \in Peers(related.index)} \ {0}

\* C15: a call of solve on a full grid returns success in one step: no cell
\* and no candidate set changes, the timer is not started, and neither
\* propagate_constraints nor backtrack is called.
C15_FullGridReturnsAtOnce ==
  [][(pc = "ready" /\ IsFull(state))
       => /\ pc' = "done" /\ outcome' = "success"
          /\ state' = state /\ possible_values' = possible_values
          /\ start' = start /\ expired' = expired
          /\ stack' = stack /\ fixpoint' = fixpoint /\ searched' = searched]_vars

\* the second call of solve, on a grid that the first call completed
C15_Witness ==
  /\ pc = "done" /\ calls = 2 /\ outcome = "success" /\ start = 1
  /\ ~IsFull(initial) /\ IsFull(state)

\* C16: whenever update_possible_values has run without raising (at
\* construction, and in each pass of propagate_constraints, in the first call
\* of solve or a later one), the stored set of every empty cell is 1..9 less
\* the values its peers hold.
C16_CandidatesMatchPeers ==
  /\ (pc = "ready" /\ calls = 0)
        => \A c \in Empties(state) : possible_values[c] = Free(state, c)
  /\ (pc = "propagate" /\ ~IsFull(state))
        => LET u == update_possible_values(state, possible_values)
           IN  u.raised = "none"
                 => \A c \in Empties(state) : u.possible_values[c] = Free(state, c)
  /\ (pc = "propagate_returned" /\ ~ret /\ ~fired)
        => \A c \in Empties(state) : possible_values[c] = Free(state, c)

\* a pass of the second call of solve, after a first call that committed
\* a cell and ended with a timeout: the set of some empty cell is no longer
\* what it was at construction
C16_Witness ==
  /\ pc = "propagate" /\ calls = 2 /\ ~IsFull(state) /\ state # initial
  /\ LET u == update_possible_values(state, possible_values)
     IN  /\ u.raised = "none"
         /\ \E c \in Empties(state) :
              u.possible_values[c] # Values \ related_cells(initial, c)

\* cell c can hold w in some valid completion of grid
Admits(grid, c, w) ==
  /\ w \notin {grid[b] : b \in Peers(c)}
  /\ Completable([grid EXCEPT ![c] = w])

\* C17: every value that propagate_constraints has committed is the value the
\* cell holds in every valid completion of the initial grid; and when a pass
\* raises because a cell has no value left, the initial grid has no valid
\* completion.
C17_OnlyForcedMoves ==
  /\ pc = "propagate"
        => \A c \in Cells :
             (initial[c] = 0 /\ state[c] # 0)
                => \A w \in Values \ {state[c]} : ~Admits(initial, c, w)
  /\ (calls > 0 /\ raised.kind = "no_possible_values") => ~Completable(initial)

\* a pass raised after earlier passes had committed cells
C17_Witness ==
  /\ pc = "done" /\ calls > 0 /\ raised.kind = "no_possible_values"
  /\ state # initial /\ NoPeerClash(initial)

Filled(grid, c) == Cardinality({grid[b] : b \in Peers(c)} \ {0})

Forced(grid) ==
  {k \in 1..(Side * Side) :
     grid[indices[k]] = 0 /\ Cardinality(Free(grid, indices[k])) = 1}

\* C20: a pass of propagate_constraints changes at most one cell; a pass
\* that calls itself again has changed exactly one, which was empty, is the
\* first cell in row-major order with exactly one candidate, and received
\* that candidate; a pass that finds no such cell, or the deadline elapsed,
\* changes nothing.
C20_OneCommitPerPass ==
  [][pc = "propagate"
       => LET changed == {c \in Cells : state'[c] # state[c]}
          IN  IF pc' = "propagate"
              THEN /\ Forced(state) # {}
                   /\ changed = {indices[Min(Forced(state))]}
                   /\ \A c \in changed : state[c] = 0 /\ Free(state, c) = {state'[c]}
              ELSE /\ changed = {}
                   /\ (pc' = "propagate_returned" /\ ~expired') => Forced(state) = {}]_vars

\* a pass committed a cell although a later cell also had one candidate
C20_Witness ==
  /\ pc = "propagate" /\ state # initial /\ ~IsFull(state)
  /\ \E c \in Cells :
       /\ initial[c] = 0 /\ state[c] # 0
       /\ \E e \in Empties(state) : Ord(c) < Ord(e) /\ Cardinality(Free(initial, e)) = 1

InPropagator(p) == p \in {"propagate", "propagate_returned"}
InSearch(p) == p \in {"backtrack", "backtrack_loop", "backtrack_returned"}

\* C22: under backtracking solve never runs propagate_constraints and the
\* search starts from the initial grid; under constraint_propagation solve
\* never runs backtrack and no frame exists; under auto solve runs
\* propagate_constraints first and enters backtrack only when it returned
\* without filling the grid, on the grid as it left it.
C22_StrategyGating ==
  [][/\ strategy = "backtracking"
          => /\ ~InPropagator(pc') /\ fixpoint' = NoFixpoint
             /\ InSearch(pc') => (searched' /\ search_entry' = initial)
     /\ strategy = "constraint_propagation"
          => ~InSearch(pc') /\ ~searched' /\ stack' = <<>>
     /\ strategy = "auto"
          => /\ pc = "ready" => pc' \in {"propagate", "done"}
             /\ (InSearch(pc') /\ ~InSearch(pc))
                   => /\ pc = "propagate_returned" /\ ~ret /\ ~IsFull(state)
                      /\ pc' = "backtrack" /\ state' = state
                      /\ searched' /\ search_entry' = state
             /\ (pc = "propagate_returned" /\ IsFull(state)) => pc' = "done"]_vars

\* under auto the search runs on a grid on which propagation committed cells
C22_Witness ==
  /\ strategy = "auto" /\ pc = "backtrack_loop" /\ searched
  /\ search_entry # initial /\ fixpoint.known /\ fixpoint.state = search_entry

ActiveBacktrack == Len(stack) + (IF pc = "backtrack" THEN 1 ELSE 0)

====
